---- MODULE Spec2Model ----
(***************************************************************************)
(* Model of the Http integration of the Node SDK                           *)
(* (src/packages/integration-tests/suites/public-api/startTransaction/     *)
(* init.js): the wrapper installed around http.get / http.request, the     *)
(* per-URL cache deciding whether trace data is attached, the header       *)
(* rewrite, and the once('response') / once('error') handlers that finish  *)
(* the span and record the breadcrumb.                                     *)
(***************************************************************************)
EXTENDS Integers, Sequences, FiniteSets, TLC

VARIABLES
  breadcrumbsEnabled,       \* Http._breadcrumbs
  tracingEnabled,           \* Http._tracing
  tracePropagationTargets,  \* clientOptions.tracePropagationTargets
  setup,                    \* "constructed", then "patched" or "unpatched" after setupOnce
  integrationActive,        \* whether getCurrentHub().getIntegration(Http) is truthy
  urlMap,                   \* the cache of shouldAttachTraceData
  evaluations,              \* per URL, how often the pattern list was evaluated
  answers,                  \* per URL, the set of results shouldAttachTraceData returned
  stored,                   \* per URL, the set of values ever written to urlMap
  propagations,             \* transaction.metadata.propagations, per transaction
  spans,                    \* the child spans created by startChild
  requests,                 \* one record per call of http.get / http.request: the handle and the closure
  call,                     \* the latest call: the caller's arguments and what the original method received
  breadcrumbs               \* per request, the breadcrumbs handed to getCurrentHub().addBreadcrumb

vars == <<breadcrumbsEnabled, tracingEnabled, tracePropagationTargets, setup,
          integrationActive, urlMap, evaluations, answers, stored, propagations,
          spans, requests, call, breadcrumbs>>

(***************************************************************************)
(* Bounds                                                                  *)
(***************************************************************************)
MaxCalls == 2      \* calls of the entry points in SpecCalls
MaxRequests == 1   \* calls of the entry points in Spec, where their terminal events follow
MaxInFlight == 2   \* requests in flight at once in SpecInFlight

(***************************************************************************)
(* Header values.  A header value is a string or a list of strings; a key  *)
(* that is not in the object is "absent", a key set to the value undefined *)
(* is "undefined".                                                         *)
(***************************************************************************)
Absent    == [kind |-> "absent",    s |-> "", l |-> <<>>]
Undefined == [kind |-> "undefined", s |-> "", l |-> <<>>]
Str(x)    == [kind |-> "str",  s |-> x,  l |-> <<>>]
List(xs)  == [kind |-> "list", s |-> "", l |-> xs]

HeaderKeys == {"sentry-trace", "baggage", "accept"}

\* reading a property of an object: a missing key reads as undefined
Get(h, k) == IF h[k].kind = "absent" THEN Undefined ELSE h[k]

\* JavaScript truthiness of a header value: undefined and '' are falsy, arrays are truthy
Truthy(v) == \/ v.kind = "list"
             \/ v.kind = "str" /\ v.s /= ""

NoHeaders == [k \in HeaderKeys |-> Absent]

(***************************************************************************)
(* URLs and patterns.  A URL is a sequence of tokens, so that substring    *)
(* and prefix matching are computed and not assumed.                       *)
(***************************************************************************)
ApiUrl    == <<"api", "example", "com">>
OtherUrl  == <<"other", "org">>
SentryUrl == <<"dsn", "ingest", "sentry">>
DsnHost   == <<"ingest", "sentry">>

Urls == {ApiUrl, OtherUrl, SentryUrl}

\* a URL argument that cannot be parsed
MalformedUrl == <<"http:", "[">>
AllUrls == Urls \cup {MalformedUrl}

Includes(url, part) ==
  \E i \in 0..(Len(url) - Len(part)) : SubSeq(url, i + 1, i + Len(part)) = part

StartsWith(url, part) ==
  /\ Len(part) <= Len(url)
  /\ SubSeq(url, 1, Len(part)) = part

StringPattern(part) == [kind |-> "string", part |-> part]
RegExpPattern(part) == [kind |-> "regexp", part |-> part]   \* the regular expression /^part/

\* @sentry/utils isMatchingPattern: a string matches as a substring, a regular expression by test()
isMatchingPattern(url, pattern) ==
  IF pattern.kind = "regexp" THEN StartsWith(url, pattern.part)
  ELSE Includes(url, pattern.part)

\* utils/http isSentryRequest: the URL contains the host of the client's DSN
isSentryRequest(url) == Includes(url, DsnHost)

NoTargets == [defined |-> FALSE, list |-> <<>>]
Targets(list) == [defined |-> TRUE, list |-> list]

TargetChoices ==
  { NoTargets,
    Targets(<<StringPattern(<<"example", "com">>)>>),
    Targets(<<RegExpPattern(<<"example">>), StringPattern(<<"org">>)>>) }

(***************************************************************************)
(* The hub's scope at the time of a call, and the transactions.            *)
(***************************************************************************)
Transactions == {"t1", "t2"}

\* what getCurrentHub().getScope() and scope.getSpan() give
Contexts == {"no-scope", "no-span", "span-without-transaction", "t1", "t2"}

hasScope(ctx)      == ctx /= "no-scope"
hasParentSpan(ctx) == ctx \in {"span-without-transaction", "t1", "t2"}
transactionOf(ctx) == IF ctx \in Transactions THEN ctx ELSE "none"

\* dynamicSamplingContextToSentryBaggageHeader(transaction.getDynamicSamplingContext()):
\* a serialized value, or undefined when the context is empty
sentryBaggageHeaderOf(txn) ==
  IF txn = "t1" THEN Str("sentry-release=1") ELSE Undefined

\* Span.toTraceparent() of the span with the given id
toTraceparent(id) == Str(ToString(id))

(***************************************************************************)
(* Caller arguments                                                        *)
(***************************************************************************)
NoMethod == "undefined"
Methods == {NoMethod, "POST"}

HeaderChoices ==
  { NoHeaders,
    [NoHeaders EXCEPT !["baggage"] = Str("")],
    [NoHeaders EXCEPT !["baggage"] = Str("user=1")],
    [NoHeaders EXCEPT !["baggage"] = List(<<"a=1", "b=2">>)],
    [NoHeaders EXCEPT !["sentry-trace"] = Str("caller"), !["accept"] = Str("json")] }

RequestArgs == [url : Urls, method : Methods, headers : HeaderChoices]

\* the calls of SpecCalls: every URL, header mapping and scope, the method left out
CallArgs == {a \in RequestArgs : a.method = NoMethod}

\* the calls of Spec: every URL and method, with and without caller headers
LifecycleHeaders ==
  { NoHeaders,
    [NoHeaders EXCEPT !["sentry-trace"] = Str("caller"), !["accept"] = Str("json")] }
LifecycleArgs == {a \in RequestArgs : a.headers \in LifecycleHeaders}
LifecycleContexts == {"no-span", "t1"}

\* the calls of SpecInFlight: two hosts, no caller headers, the default method
InFlightArgs == [url : {ApiUrl, OtherUrl}, method : {NoMethod}, headers : {NoHeaders}]

\* the calls of SpecLive: no caller headers, the default method
LiveArgs == [url : {ApiUrl, SentryUrl}, method : {NoMethod}, headers : {NoHeaders}]

\* the calls of SpecEdge: a well-formed and a malformed URL, under every scope without
\* a span and under a transaction
EdgeArgs == [url : {ApiUrl, MalformedUrl}, method : {NoMethod}, headers : LifecycleHeaders]
EdgeContexts == {"no-scope", "no-span", "t1"}

\* utils/http normalizeRequestArgs / extractUrl on the arguments: whether they throw.
\* A URL string that cannot be parsed may throw, an options object gives a string.
normalizeRequestArgsThrows(args) ==
  IF args.url = MalformedUrl THEN BOOLEAN ELSE {FALSE}

\* requestOptions.method || 'GET'
methodOrGet(m) == IF m = NoMethod THEN "GET" ELSE m

(***************************************************************************)
(* shouldAttachTraceData                                                   *)
(***************************************************************************)
\* faulty variant: every() in place of some()
everyTargetMatches(url) ==
  \A i \in 1..Len(tracePropagationTargets.list) :
    isMatchingPattern(url, tracePropagationTargets.list[i])

\* tracePropagationTargets.some(target => isMatchingPattern(url, target))
someTargetMatches(url) ==
  \E i \in 1..Len(tracePropagationTargets.list) :
    isMatchingPattern(url, tracePropagationTargets.list[i])

\* whether the call returns before the pattern list is looked at
answeredWithoutEvaluation(url) ==
  \/ ~tracePropagationTargets.defined
  \/ urlMap[url] = "true"

\* faulty variant: the target list is ignored
shouldAttachAlways(url) == TRUE

shouldAttachTraceData(url) ==
  IF ~tracePropagationTargets.defined THEN TRUE
  ELSE IF urlMap[url] = "true" THEN TRUE
  ELSE someTargetMatches(url)

cacheValue(b) == IF b THEN "true" ELSE "false"

\* the cache after shouldAttachTraceData(url)
urlMapAfter(url) ==
  IF answeredWithoutEvaluation(url) THEN urlMap
  ELSE [urlMap EXCEPT ![url] = cacheValue(someTargetMatches(url))]

(***************************************************************************)
(* Header rewrite                                                          *)
(***************************************************************************)
\* faulty variant: the new value is put before the existing ones
newBaggageHeaderFieldPrepended(existing, sentryBaggageHeader) ==
  IF ~Truthy(existing) THEN sentryBaggageHeader
  ELSE IF ~Truthy(sentryBaggageHeader) THEN existing
  ELSE IF existing.kind = "list" THEN List(<<sentryBaggageHeader.s>> \o existing.l)
  ELSE List(<<sentryBaggageHeader.s, existing.s>>)

newBaggageHeaderField(existing, sentryBaggageHeader) ==
  IF ~Truthy(existing) THEN sentryBaggageHeader
  ELSE IF ~Truthy(sentryBaggageHeader) THEN existing
  ELSE IF existing.kind = "list" THEN List(Append(existing.l, sentryBaggageHeader.s))
  ELSE List(<<existing.s, sentryBaggageHeader.s>>)

\* faulty variant: the baggage key is assigned whatever the value
withBaggageAlways(headers, field) == [headers EXCEPT !["baggage"] = field]

\* { ...headers, ...(newBaggageHeaderField && { baggage: newBaggageHeaderField }) }
withBaggage(headers, field) ==
  IF Truthy(field) THEN [headers EXCEPT !["baggage"] = field] ELSE headers

\* { ...headers, 'sentry-trace': sentryTraceHeader }
withSentryTrace(headers, sentryTraceHeader) ==
  [headers EXCEPT !["sentry-trace"] = sentryTraceHeader]

\* faulty variant: the baggage block is skipped
attachedHeadersWithoutBaggage(headers, id, ctx) ==
  [headers EXCEPT !["sentry-trace"] = Str(ToString(id))]

\* the headers of requestOptions after the shouldAttachTraceData branch was taken
attachedHeaders(headers, id, ctx) ==
  LET traced == withSentryTrace(headers, toTraceparent(id))
  IN IF transactionOf(ctx) = "none" THEN traced
     ELSE withBaggage(traced,
            newBaggageHeaderField(Get(traced, "baggage"),
                                  sentryBaggageHeaderOf(transactionOf(ctx))))

\* faulty variant: tracingEnabled is not consulted
startsChildUntraced(ctx) == hasScope(ctx) /\ hasParentSpan(ctx)

\* scope && tracingEnabled, then parentSpan: whether startChild is called
startsChild(ctx) == hasScope(ctx) /\ tracingEnabled /\ hasParentSpan(ctx)

\* faulty variant: no short-circuit for requests to Sentry
excludedNever(requestUrl) == FALSE

\* if (isSentryRequest(requestUrl)) return originalRequestMethod.apply(httpModule, requestArgs)
excluded(requestUrl) == isSentryRequest(requestUrl)

(***************************************************************************)
(* Initial state: the integration has been constructed with its options.   *)
(***************************************************************************)
Init ==
  /\ breadcrumbsEnabled \in BOOLEAN
  /\ tracingEnabled \in BOOLEAN
  /\ tracePropagationTargets \in TargetChoices
  /\ setup = "constructed"
  /\ integrationActive = TRUE
  /\ urlMap = [u \in AllUrls |-> "unset"]
  /\ evaluations = [u \in AllUrls |-> 0]
  /\ answers = [u \in AllUrls |-> {}]
  /\ stored = [u \in AllUrls |-> {}]
  /\ propagations = [t \in Transactions |-> 0]
  /\ spans = <<>>
  /\ requests = <<>>
  /\ call = <<>>
  /\ breadcrumbs = <<>>

(***************************************************************************)
(* setupOnce                                                               *)
(***************************************************************************)
setupOnce ==
  /\ setup = "constructed"
  /\ setup' = IF ~breadcrumbsEnabled /\ ~tracingEnabled THEN "unpatched" ELSE "patched"
  /\ UNCHANGED <<breadcrumbsEnabled, tracingEnabled, tracePropagationTargets,
                 integrationActive, urlMap, evaluations, answers, stored,
                 propagations, spans, requests, call, breadcrumbs>>

\* the hub's client is replaced or restored: getIntegration(Http) changes its answer
toggleIntegration ==
  /\ setup /= "constructed"
  /\ integrationActive' = ~integrationActive
  /\ UNCHANGED <<breadcrumbsEnabled, tracingEnabled, tracePropagationTargets, setup,
                 urlMap, evaluations, answers, stored, propagations, spans,
                 requests, call, breadcrumbs>>

(***************************************************************************)
(* A call of http.get / http.request                                       *)
(***************************************************************************)
\* the handle the original method returns and what the closure of the handlers holds
requestRecord(args, ctx, wrapped, span, attached, listeners) ==
  [ url       |-> args.url,
    method    |-> args.method,
    ctx       |-> ctx,
    wrapped   |-> wrapped,
    span      |-> span,
    attached  |-> attached,
    listeners |-> listeners,
    first     |-> "none",
    threw     |-> FALSE ]

\* normalizeRequestArgs or extractUrl threw: the exception leaves wrappedMethod, the
\* original method is not called and there is no handle
thrownRecord(args, ctx) ==
  [requestRecord(args, ctx, TRUE, 0, FALSE, {}) EXCEPT !.threw = TRUE]

\* originalRequestMethod.apply(httpModule, requestArgs): what the original method
\* received, the handle it created, the steps of the call in the order they ran and
\* the handle given back to the caller
callRecord(args, ctx, headers, steps) ==
  <<[ args |-> args, ctx |-> ctx, headers |-> headers, request |-> Len(requests) + 1,
      steps |-> steps, returned |-> Len(requests) + 1 ]>>

\* a wrapper that calls the original method before it merges the headers
wrappedStepsOriginalFirst(requestUrl, ctx) ==
  <<"normalizeRequestArgs", "extractUrl", "isSentryRequest">> \o
  (IF excluded(requestUrl) THEN <<"originalRequestMethod", "return">>
   ELSE (IF startsChild(ctx) THEN <<"startChild">> ELSE <<>>) \o
        <<"originalRequestMethod">> \o
        (IF startsChild(ctx) /\ shouldAttachTraceData(requestUrl)
         THEN <<"headers">> ELSE <<>>) \o
        (IF startsChild(ctx) /\ transactionOf(ctx) /= "none"
         THEN <<"propagations">> ELSE <<>>) \o
        <<"once", "return">>)

\* the steps of one wrappedMethod call, in the order of its statements
wrappedSteps(requestUrl, ctx) ==
  <<"normalizeRequestArgs", "extractUrl", "isSentryRequest">> \o
  (IF excluded(requestUrl) THEN <<"originalRequestMethod", "return">>
   ELSE (IF startsChild(ctx) THEN <<"startChild">> ELSE <<>>) \o
        (IF startsChild(ctx) /\ shouldAttachTraceData(requestUrl)
         THEN <<"headers">> ELSE <<>>) \o
        (IF startsChild(ctx) /\ transactionOf(ctx) /= "none"
         THEN <<"propagations">> ELSE <<>>) \o
        <<"originalRequestMethod", "once", "return">>)

\* the module was not patched: the call reaches the original method directly
originalMethod(args, ctx) ==
  /\ requests' = Append(requests, requestRecord(args, ctx, FALSE, 0, FALSE, {}))
  /\ call' = callRecord(args, ctx, args.headers, <<"originalRequestMethod", "return">>)
  /\ UNCHANGED <<urlMap, evaluations, answers, stored, propagations, spans>>

wrappedMethod(args, ctx) ==
  LET requestUrl == args.url
      id         == Len(spans) + 1
      attach     == shouldAttachTraceData(requestUrl)
      txn        == transactionOf(ctx)
  IN
  \E threw \in normalizeRequestArgsThrows(args) :
  IF threw THEN
    /\ requests' = Append(requests, thrownRecord(args, ctx))
    /\ UNCHANGED <<call, urlMap, evaluations, answers, stored, propagations, spans>>
  ELSE IF excluded(requestUrl) THEN
    /\ requests' = Append(requests, requestRecord(args, ctx, TRUE, 0, FALSE, {}))
    /\ call' = callRecord(args, ctx, args.headers, wrappedSteps(requestUrl, ctx))
    /\ UNCHANGED <<urlMap, evaluations, answers, stored, propagations, spans>>
  ELSE IF ~startsChild(ctx) THEN
    /\ requests' = Append(requests,
          requestRecord(args, ctx, TRUE, 0, FALSE, {"response", "error"}))
    /\ call' = callRecord(args, ctx, args.headers, wrappedSteps(requestUrl, ctx))
    /\ UNCHANGED <<urlMap, evaluations, answers, stored, propagations, spans>>
  ELSE
    /\ spans' = Append(spans,
          [ request     |-> Len(requests) + 1,
            transaction |-> txn,
            description |-> [method |-> methodOrGet(args.method), url |-> requestUrl],
            op          |-> "http.client",
            status      |-> "unset",
            finished    |-> 0 ])
    /\ urlMap' = urlMapAfter(requestUrl)
    /\ evaluations' =
         IF answeredWithoutEvaluation(requestUrl) THEN evaluations
         ELSE [evaluations EXCEPT ![requestUrl] = @ + 1]
    /\ answers' = [answers EXCEPT ![requestUrl] = @ \cup {attach}]
    /\ stored' =
         IF answeredWithoutEvaluation(requestUrl) THEN stored
         ELSE [stored EXCEPT ![requestUrl] = @ \cup {urlMapAfter(requestUrl)[requestUrl]}]
    /\ propagations' =
         IF txn = "none" THEN propagations
         ELSE [propagations EXCEPT ![txn] = @ + 1]
    /\ requests' = Append(requests,
          requestRecord(args, ctx, TRUE, id, attach, {"response", "error"}))
    /\ call' = callRecord(args, ctx,
          IF attach THEN attachedHeaders(args.headers, id, ctx) ELSE args.headers,
          wrappedSteps(requestUrl, ctx))

request(args, ctx) ==
  /\ setup /= "constructed"
  /\ IF setup = "patched" THEN wrappedMethod(args, ctx) ELSE originalMethod(args, ctx)
  /\ breadcrumbs' = Append(breadcrumbs, <<>>)
  /\ UNCHANGED <<breadcrumbsEnabled, tracingEnabled, tracePropagationTargets, setup,
                 integrationActive>>

(***************************************************************************)
(* Terminal events                                                         *)
(***************************************************************************)
NoStatusCode == 0
StatusCodes == {NoStatusCode, 200}

\* Span.setHttpStatus: the status that spanStatusfromHttpCode gives for the code
spanStatusfromHttpCode(code) ==
  IF code >= 100 /\ code < 400 THEN "ok"
  ELSE IF code = 404 THEN "not_found"
  ELSE IF code >= 400 /\ code < 500 THEN "invalid_argument"
  ELSE IF code >= 500 /\ code < 600 THEN "internal_error"
  ELSE "unknown_error"

setHttpStatus(span, code) ==
  IF spanStatusfromHttpCode(code) = "unknown_error" THEN span
  ELSE [span EXCEPT !.status = spanStatusfromHttpCode(code)]

\* utils/http cleanSpanDescription: the method of the finished request, the URL kept
cleanSpanDescription(description, method) ==
  [description EXCEPT !.method = methodOrGet(method)]

\* addRequestBreadcrumb without the getIntegration(Http) test
addRequestBreadcrumbUnchecked(event, r, code) ==
  [breadcrumbs EXCEPT ![r] = Append(@,
     [ category    |-> "http",
       type        |-> "http",
       method      |-> methodOrGet(requests[r].method),
       status_code |-> code,
       url         |-> requests[r].url,
       event       |-> event ])]

\* addRequestBreadcrumb
addRequestBreadcrumb(event, r, code) ==
  IF ~integrationActive THEN breadcrumbs
  ELSE [breadcrumbs EXCEPT ![r] = Append(@,
         [ category    |-> "http",
           type        |-> "http",
           method      |-> methodOrGet(requests[r].method),
           status_code |-> code,
           url         |-> requests[r].url,
           event       |-> event ])]

\* a response listener that uses the span created last instead of its own
onResponseSharedSpan(r, code) ==
  LET id == IF requests[r].span = 0 THEN 0 ELSE Len(spans)
  IN /\ breadcrumbs' =
          IF breadcrumbsEnabled THEN addRequestBreadcrumb("response", r, code)
          ELSE breadcrumbs
     /\ spans' =
          IF tracingEnabled /\ id /= 0
          THEN [spans EXCEPT ![id] =
                  [ (IF code /= NoStatusCode THEN setHttpStatus(@, code) ELSE @)
                    EXCEPT !.description = cleanSpanDescription(@, requests[r].method),
                           !.finished = @ + 1 ]]
          ELSE spans

\* a response listener that finishes the span only when there is a status code
onResponseFinishWithStatus(r, code) ==
  LET id == requests[r].span
  IN /\ breadcrumbs' =
          IF breadcrumbsEnabled THEN addRequestBreadcrumb("response", r, code)
          ELSE breadcrumbs
     /\ spans' =
          IF tracingEnabled /\ id /= 0 /\ code /= NoStatusCode
          THEN [spans EXCEPT ![id] =
                  [ setHttpStatus(@, code)
                    EXCEPT !.description = cleanSpanDescription(@, requests[r].method),
                           !.finished = @ + 1 ]]
          ELSE spans

\* a response listener that records the breadcrumb only for a request with a span
onResponseBreadcrumbWithSpan(r, code) ==
  LET id == requests[r].span
  IN /\ breadcrumbs' =
          IF breadcrumbsEnabled /\ tracingEnabled /\ id /= 0
          THEN addRequestBreadcrumb("response", r, code)
          ELSE breadcrumbs
     /\ spans' =
          IF tracingEnabled /\ id /= 0
          THEN [spans EXCEPT ![id] =
                  [ (IF code /= NoStatusCode THEN setHttpStatus(@, code) ELSE @)
                    EXCEPT !.description = cleanSpanDescription(@, requests[r].method),
                           !.finished = @ + 1 ]]
          ELSE spans

\* the listener registered with once('response')
onResponse(r, code) ==
  LET id == requests[r].span
  IN /\ breadcrumbs' =
          IF breadcrumbsEnabled THEN addRequestBreadcrumb("response", r, code)
          ELSE breadcrumbs
     /\ spans' =
          IF tracingEnabled /\ id /= 0
          THEN [spans EXCEPT ![id] =
                  [ (IF code /= NoStatusCode THEN setHttpStatus(@, code) ELSE @)
                    EXCEPT !.description = cleanSpanDescription(@, requests[r].method),
                           !.finished = @ + 1 ]]
          ELSE spans

\* an error listener that finishes the span without setHttpStatus(500)
onErrorWithoutStatus(r) ==
  LET id == requests[r].span
  IN /\ breadcrumbs' =
          IF breadcrumbsEnabled THEN addRequestBreadcrumb("error", r, NoStatusCode)
          ELSE breadcrumbs
     /\ spans' =
          IF tracingEnabled /\ id /= 0
          THEN [spans EXCEPT ![id] =
                  [ @ EXCEPT !.description = cleanSpanDescription(@, requests[r].method),
                             !.finished = @ + 1 ]]
          ELSE spans

\* an error listener that leaves the span unfinished
onErrorWithoutFinish(r) ==
  LET id == requests[r].span
  IN /\ breadcrumbs' =
          IF breadcrumbsEnabled THEN addRequestBreadcrumb("error", r, NoStatusCode)
          ELSE breadcrumbs
     /\ spans' =
          IF tracingEnabled /\ id /= 0
          THEN [spans EXCEPT ![id] =
                  [ setHttpStatus(@, 500)
                    EXCEPT !.description = cleanSpanDescription(@, requests[r].method) ]]
          ELSE spans

\* the listener registered with once('error')
onError(r) ==
  LET id == requests[r].span
  IN /\ breadcrumbs' =
          IF breadcrumbsEnabled THEN addRequestBreadcrumb("error", r, NoStatusCode)
          ELSE breadcrumbs
     /\ spans' =
          IF tracingEnabled /\ id /= 0
          THEN [spans EXCEPT ![id] =
                  [ setHttpStatus(@, 500)
                    EXCEPT !.description = cleanSpanDescription(@, requests[r].method),
                           !.finished = @ + 1 ]]
          ELSE spans

\* the transport emits 'response' on the handle of request r
emitResponse(r, code) ==
  /\ r \in 1..Len(requests)
  /\ ~requests[r].threw
  /\ IF "response" \in requests[r].listeners
     THEN onResponse(r, code)
     ELSE UNCHANGED <<breadcrumbs, spans>>
  /\ requests' = [requests EXCEPT ![r].listeners = @ \ {"response"},
                                  ![r].first = IF @ = "none" THEN "response" ELSE @]
  /\ UNCHANGED <<breadcrumbsEnabled, tracingEnabled, tracePropagationTargets, setup,
                 integrationActive, urlMap, evaluations, answers, stored,
                 propagations, call>>

\* the transport emits 'error' on the handle of request r
emitError(r) ==
  /\ r \in 1..Len(requests)
  /\ ~requests[r].threw
  /\ IF "error" \in requests[r].listeners
     THEN onError(r)
     ELSE UNCHANGED <<breadcrumbs, spans>>
  /\ requests' = [requests EXCEPT ![r].listeners = @ \ {"error"},
                                  ![r].first = IF @ = "none" THEN "error" ELSE @]
  /\ UNCHANGED <<breadcrumbsEnabled, tracingEnabled, tracePropagationTargets, setup,
                 integrationActive, urlMap, evaluations, answers, stored,
                 propagations, call>>

(***************************************************************************)
(* Specifications                                                          *)
(***************************************************************************)
\* calls and the terminal events of their handles
Next ==
  \/ setupOnce
  \/ toggleIntegration
  \/ \E args \in LifecycleArgs, ctx \in LifecycleContexts :
       Len(requests) < MaxRequests /\ request(args, ctx)
  \/ \E r \in 1..Len(requests), code \in StatusCodes : emitResponse(r, code)
  \/ \E r \in 1..Len(requests) : emitError(r)

Spec == Init /\ [][Next]_vars

\* calls alone: the cache, the spans created, the counters, the headers passed on
NextCalls ==
  \/ setupOnce
  \/ \E args \in CallArgs, ctx \in Contexts :
       Len(requests) < MaxCalls /\ request(args, ctx)

SpecCalls == Init /\ [][NextCalls]_vars

\* the transport delivers a terminal event on the handle of request r
terminalEvent(r) ==
  \/ \E code \in StatusCodes : emitResponse(r, code)
  \/ emitError(r)

\* calls without caller headers, and the terminal events of their handles
NextLive ==
  \/ setupOnce
  \/ toggleIntegration
  \/ \E args \in LiveArgs, ctx \in LifecycleContexts :
       Len(requests) < MaxRequests /\ request(args, ctx)
  \/ \E r \in 1..Len(requests) : terminalEvent(r)

\* every request in flight eventually receives a terminal event
SpecLive ==
  Init /\ [][NextLive]_vars /\ \A r \in 1..MaxRequests : WF_vars(terminalEvent(r))

\* several requests in flight at once under one transaction, and their terminal
\* events in any order
NextInFlight ==
  \/ setupOnce
  \/ toggleIntegration
  \/ \E args \in InFlightArgs :
       Len(requests) < MaxInFlight /\ request(args, "t1")
  \/ \E r \in 1..Len(requests) : emitResponse(r, 200)
  \/ \E r \in 1..Len(requests) : emitError(r)

SpecInFlight == Init /\ [][NextInFlight]_vars

\* calls with a malformed URL or without a scope, and their terminal events
NextEdge ==
  \/ setupOnce
  \/ toggleIntegration
  \/ \E args \in EdgeArgs, ctx \in EdgeContexts :
       Len(requests) < MaxRequests /\ request(args, ctx)
  \/ \E r \in 1..Len(requests), code \in StatusCodes : emitResponse(r, code)
  \/ \E r \in 1..Len(requests) : emitError(r)

SpecEdge == Init /\ [][NextEdge]_vars

(***************************************************************************)
(* Properties                                                              *)
(***************************************************************************)
\* the calls that went through the wrapper and were not to the DSN's host
Intercepted(r) == requests[r].wrapped /\ ~isSentryRequest(requests[r].url)

\* what the configuration says about a URL: no target list, or some target matches
ExpectedAttach(url) ==
  \/ ~tracePropagationTargets.defined
  \/ \E i \in 1..Len(tracePropagationTargets.list) :
       isMatchingPattern(url, tracePropagationTargets.list[i])

\* C1: finish is invoked at most once on every span the wrapper created, whatever
\* terminal events the transport delivers on the handle.
C1_FinishedAtMostOnce ==
  \A i \in 1..Len(spans) : spans[i].finished <= 1

\* C2: a call through the wrapper to the DSN's host reaches the original method with
\* its headers unchanged and leaves nothing behind: no span, no listener, no
\* breadcrumb whatever events follow, and no increment of a propagation counter.
C2_SentryRequestUntouched ==
  /\ \A r \in 1..Len(requests) :
       requests[r].wrapped /\ isSentryRequest(requests[r].url) =>
         /\ requests[r].span = 0
         /\ ~requests[r].attached
         /\ requests[r].listeners = {}
         /\ breadcrumbs[r] = <<>>
         /\ \A i \in 1..Len(spans) : spans[i].request /= r
  /\ \A i \in 1..Len(call) :
       requests[call[i].request].wrapped /\ isSentryRequest(call[i].args.url) =>
         call[i].headers = call[i].args.headers
  /\ \A t \in Transactions :
       propagations[t] <=
         Cardinality({r \in 1..Len(requests) :
                        requests[r].ctx = t /\ ~isSentryRequest(requests[r].url)})

C2_Witness ==
  /\ breadcrumbsEnabled /\ tracingEnabled /\ integrationActive
  /\ tracePropagationTargets.defined
  /\ \E r \in 1..Len(requests) :
       /\ requests[r].wrapped
       /\ isSentryRequest(requests[r].url)
       /\ requests[r].ctx = "t1"
       /\ requests[r].first = "response"
       /\ call[1].args.headers /= NoHeaders

\* C3: a call through the wrapper that is not to the DSN's host creates a span exactly
\* when tracing is enabled, a scope exists and the scope has a span; the spans created
\* are as many as such calls, one for each.
C3_Eligible(r) ==
  /\ Intercepted(r)
  /\ tracingEnabled
  /\ requests[r].ctx \notin {"no-scope", "no-span"}

C3_OneSpanPerEligibleCall ==
  /\ \A r \in 1..Len(requests) :
       Intercepted(r) => (requests[r].span /= 0 <=> C3_Eligible(r))
  /\ Len(spans) = Cardinality({r \in 1..Len(requests) : C3_Eligible(r)})
  /\ \A i \in 1..Len(spans) :
       /\ spans[i].request \in 1..Len(requests)
       /\ requests[spans[i].request].span = i

C3_Witness ==
  /\ tracingEnabled
  /\ Len(requests) = 2
  /\ Len(spans) = 1
  /\ \E r \in 1..2 : Intercepted(r) /\ requests[r].ctx = "no-scope"
  /\ \E r \in 1..2 : Intercepted(r) /\ requests[r].ctx = "span-without-transaction"

\* C4: every shouldAttachTraceData query for a URL returns the same boolean, true
\* without a target list and otherwise true exactly when some target matches; a value
\* stored in the cache for a URL is never replaced by another.
C4_AnswersAndCacheStable ==
  \A u \in Urls :
    /\ answers[u] \subseteq {ExpectedAttach(u)}
    /\ Cardinality(stored[u]) <= 1
    /\ urlMap[u] /= "unset" => stored[u] = {urlMap[u]}
    /\ stored[u] \subseteq {IF ExpectedAttach(u) THEN "true" ELSE "false"}

C4_Witness ==
  /\ Len(spans) = 2
  /\ spans[1].description.url = spans[2].description.url
  /\ answers[spans[1].description.url] = {FALSE}
  /\ urlMap[spans[1].description.url] = "false"

\* C5: with a target list configured, the list is evaluated at most once for each URL.
C5_EvaluatedAtMostOncePerUrl ==
  \A u \in Urls : evaluations[u] <= 1

\* C6: each transaction's propagations counter equals the number of calls made under
\* it for which the propagation headers were attached.
C6_PropagationsCountAttachments ==
  \A t \in Transactions :
    propagations[t] =
      Cardinality({r \in 1..Len(requests) : requests[r].ctx = t /\ requests[r].attached})

\* C7: when a span is created, the headers passed on carry the span's sentry-trace
\* value exactly when the configuration says the URL is a target; when it is not, no
\* header is added, and still the span exists, is finished by the terminal event, and
\* the breadcrumb is recorded when breadcrumbs are enabled and the integration active.
C7_HeaderIffTarget ==
  /\ \A i \in 1..Len(call) :
       LET c == call[i]
           r == requests[c.request]
       IN r.span /= 0 =>
            /\ (c.headers["sentry-trace"] = toTraceparent(r.span)) <=> ExpectedAttach(r.url)
            /\ ~ExpectedAttach(r.url) => c.headers = c.args.headers
  /\ \A r \in 1..Len(requests) :
       /\ Intercepted(r) /\ tracingEnabled /\ requests[r].ctx = "t1" => requests[r].span /= 0
       /\ requests[r].span /= 0 /\ requests[r].first /= "none" =>
            spans[requests[r].span].finished >= 1

C7_BreadcrumbOnTerminalEvent ==
  \A r \in 1..Len(requests) :
    ( /\ requests[r].span /= 0
      /\ requests[r].first = "none"
      /\ requests'[r].first /= "none"
      /\ breadcrumbsEnabled
      /\ integrationActive )
    => Len(breadcrumbs'[r]) = Len(breadcrumbs[r]) + 1

C7_TraceHeaderOnlyForTargets ==
  [](C7_HeaderIffTarget) /\ [][C7_BreadcrumbOnTerminalEvent]_vars

C7_Witness ==
  \E r \in 1..Len(requests) :
    /\ requests[r].span /= 0
    /\ ~ExpectedAttach(requests[r].url)
    /\ call[1].args.headers["sentry-trace"] = Str("caller")
    /\ call[1].headers["sentry-trace"] = Str("caller")
    /\ requests[r].first = "error"
    /\ spans[requests[r].span].finished = 1
    /\ Len(breadcrumbs[r]) = 1

\* the calls for which the wrapper attached the propagation headers under a transaction
C8_Attached(c) ==
  /\ requests[c.request].span /= 0
  /\ requests[c.request].attached
  /\ c.ctx \in Transactions

\* the merge table as stated: rows by existing value, columns by the new value
C8_TableAsStated(existing, new) ==
  IF new.kind = "undefined" THEN existing
  ELSE IF existing.kind = "absent" THEN new
  ELSE IF existing.kind = "str" THEN List(<<existing.s, new.s>>)
  ELSE List(Append(existing.l, new.s))

C8_TableAmended(existing, new) ==
  IF new.kind = "undefined" THEN existing
  ELSE IF existing.kind = "absent" THEN new
  ELSE IF existing.kind = "str" /\ existing.s = "" THEN new
  ELSE IF existing.kind = "str" THEN List(<<existing.s, new.s>>)
  ELSE List(Append(existing.l, new.s))

C9_BaggageFromContextAsStated ==
  \A i \in 1..Len(call) :
    LET c == call[i]
        new == sentryBaggageHeaderOf(c.ctx)
    IN ( /\ requests[c.request].span /= 0
         /\ c.ctx \in Transactions
         /\ c.args.headers["baggage"] = Absent )
       => c.headers["baggage"] = (IF new.kind = "undefined" THEN Absent ELSE new)

\* C9 (amended): the same, for the URLs the configuration makes targets; for a URL
\* that is no target no baggage is added.
C9_BaggageFromContext ==
  \A i \in 1..Len(call) :
    LET c == call[i]
        new == sentryBaggageHeaderOf(c.ctx)
    IN ( /\ requests[c.request].span /= 0
         /\ c.ctx \in Transactions
         /\ c.args.headers["baggage"] = Absent )
       => c.headers["baggage"] =
            (IF ExpectedAttach(c.args.url) /\ new.kind /= "undefined" THEN new ELSE Absent)

C9_Witness ==
  /\ Len(call) = 1
  /\ requests[call[1].request].span /= 0
  /\ tracePropagationTargets.defined
  /\ call[1].ctx = "t1"
  /\ call[1].args.headers["baggage"] = Absent
  /\ call[1].headers["baggage"] = Str("sentry-release=1")

\* a defined, non-empty header value
C10_DefinedNonEmpty(v) ==
  \/ v.kind = "str" /\ v.s /= ""
  \/ v.kind = "list" /\ v.l /= <<>>

\* C10: no header passed on has the value undefined; a sentry-trace or baggage value
\* the wrapper wrote is defined and non-empty; with no value of the caller's and none
\* from the context the baggage key is left out.
C10_NoUndefinedHeader ==
  \A i \in 1..Len(call) :
    LET c == call[i]
    IN requests[c.request].wrapped =>
         /\ \A k \in HeaderKeys :
              /\ c.headers[k].kind /= "undefined"
              /\ c.headers[k] /= c.args.headers[k] => C10_DefinedNonEmpty(c.headers[k])
         /\ ( /\ c.args.headers["baggage"] = Absent
              /\ sentryBaggageHeaderOf(c.ctx).kind = "undefined" )
            => c.headers["baggage"] = Absent

C10_Witness ==
  /\ Len(call) = 1
  /\ requests[call[1].request].attached
  /\ call[1].ctx = "t2"
  /\ call[1].args.headers = NoHeaders
  /\ call[1].headers["sentry-trace"] = Str("1")
  /\ call[1].headers["baggage"] = Absent

\* the value the caller gave is kept: unchanged, or as the leading part of a list
C11_Kept(before, after) ==
  \/ after = before
  \/ /\ before.kind = "str"
     /\ after.kind = "list"
     /\ Len(after.l) >= 1
     /\ after.l[1] = before.s
  \/ /\ before.kind = "list"
     /\ after.kind = "list"
     /\ Len(after.l) >= Len(before.l)
     /\ SubSeq(after.l, 1, Len(before.l)) = before.l

\* C11: every header the caller passed is still there, with its value, in the headers
\* the original method receives; an existing baggage value is kept as the leading
\* part of the merged one.
C11_CallerHeadersPreserved ==
  \A i \in 1..Len(call) :
    \A k \in HeaderKeys :
      call[i].args.headers[k] /= Absent =>
        IF k = "baggage"
        THEN C11_Kept(call[i].args.headers[k], call[i].headers[k])
        ELSE call[i].headers[k] = call[i].args.headers[k]

\* C12: at most one breadcrumb is recorded for a request, whatever terminal events
\* its handle receives.
C12_AtMostOneBreadcrumb ==
  \A r \in 1..Len(requests) : Len(breadcrumbs[r]) <= 1

\* C13: a call with a malformed URL creates no span, changes no header, records no
\* breadcrumb, still reaches the original method, and throws nothing to the caller.
C13_MalformedUrlContained ==
  /\ \A r \in 1..Len(requests) :
       requests[r].wrapped /\ requests[r].url = MalformedUrl =>
         /\ ~requests[r].threw
         /\ requests[r].span = 0
         /\ ~requests[r].attached
         /\ breadcrumbs[r] = <<>>
  /\ \A i \in 1..Len(call) :
       requests[call[i].request].wrapped /\ call[i].args.url = MalformedUrl =>
         call[i].headers = call[i].args.headers

\* the breadcrumb of a terminal event of request r
HttpBreadcrumb(event, r, code) ==
  [ category    |-> "http",
    type        |-> "http",
    method      |-> IF requests[r].method = NoMethod THEN "GET" ELSE requests[r].method,
    status_code |-> code,
    url         |-> requests[r].url,
    event       |-> event ]

\* this step runs the error listener of request r, and r had no terminal event yet
C14_ErrorStep(r) ==
  /\ "error" \in requests[r].listeners
  /\ "error" \notin requests'[r].listeners
  /\ requests[r].first = "none"

C14_ErrorHandled ==
  \A r \in 1..Len(requests) :
    C14_ErrorStep(r) =>
      /\ breadcrumbs'[r] =
           IF breadcrumbsEnabled /\ integrationActive
           THEN Append(breadcrumbs[r], HttpBreadcrumb("error", r, NoStatusCode))
           ELSE breadcrumbs[r]
      /\ requests[r].span /= 0 =>
           /\ spans'[requests[r].span].status = "internal_error"
           /\ spans'[requests[r].span].finished = spans[requests[r].span].finished + 1

\* C14: the error event of a request without a response records, when breadcrumbs
\* are enabled and the integration is registered, a breadcrumb of category and type
\* http with the method and URL and without a status code; a span created for the
\* request gets the error status and is finished.
C14_ErrorEvent == [][C14_ErrorHandled]_vars

C14_Witness ==
  \E r \in 1..Len(requests) :
    /\ requests[r].first = "error"
    /\ "response" \in requests[r].listeners
    /\ requests[r].span /= 0
    /\ spans[requests[r].span].status = "internal_error"
    /\ spans[requests[r].span].finished = 1
    /\ breadcrumbs[r] = <<HttpBreadcrumb("error", r, NoStatusCode)>>

\* this step runs the response listener of request r
C15_ResponseStep(r) ==
  /\ "response" \in requests[r].listeners
  /\ "response" \notin requests'[r].listeners

C15_ResponseHandled ==
  \A r \in 1..Len(requests) :
    C15_ResponseStep(r) =>
      \E code \in StatusCodes :
        /\ breadcrumbs'[r] =
             IF breadcrumbsEnabled /\ integrationActive
             THEN Append(breadcrumbs[r], HttpBreadcrumb("response", r, code))
             ELSE breadcrumbs[r]
        /\ requests[r].span /= 0 =>
             /\ spans'[requests[r].span].status =
                  IF code /= NoStatusCode THEN spanStatusfromHttpCode(code)
                  ELSE spans[requests[r].span].status
             /\ spans'[requests[r].span].finished = spans[requests[r].span].finished + 1

\* C15: the response event records, when breadcrumbs are enabled and the
\* integration is registered, a breadcrumb with the response's status code, the
\* method and the URL; a span created for the request gets its status from the
\* status code when there is one, keeps the status it had when there is none, and is
\* finished in both cases.
C15_ResponseEvent == [][C15_ResponseHandled]_vars

C15_Witness ==
  \E r \in 1..Len(requests) :
    /\ requests[r].first = "response"
    /\ "error" \in requests[r].listeners
    /\ requests[r].span /= 0
    /\ spans[requests[r].span].status = "unset"
    /\ spans[requests[r].span].finished = 1
    /\ breadcrumbs[r] = <<HttpBreadcrumb("response", r, NoStatusCode)>>

\* a call that went through the wrapper with breadcrumbs enabled and without tracing,
\* a scope or an active span
C16_RecordWithoutSpan(rec) ==
  /\ rec.wrapped
  /\ ~isSentryRequest(rec.url)
  /\ ~rec.threw
  /\ breadcrumbsEnabled
  /\ ~tracingEnabled \/ rec.ctx \in {"no-scope", "no-span"}

C16_WithoutSpan(r) == C16_RecordWithoutSpan(requests[r])

C16_CallWithoutSpan ==
  Len(requests') = Len(requests) + 1 /\ C16_RecordWithoutSpan(requests'[Len(requests')]) =>
    /\ spans' = spans
    /\ propagations' = propagations
    /\ requests'[Len(requests')].span = 0
    /\ ~requests'[Len(requests')].attached
    /\ call'[1].request = Len(requests')
    /\ call'[1].headers = call'[1].args.headers

C16_EventWithoutSpan ==
  \A r \in 1..Len(requests) :
    C16_WithoutSpan(r) /\ requests'[r].listeners /= requests[r].listeners /\ integrationActive =>
      /\ Len(breadcrumbs'[r]) = Len(breadcrumbs[r]) + 1
      /\ breadcrumbs'[r][Len(breadcrumbs'[r])].url = requests[r].url
      /\ spans' = spans
      /\ propagations' = propagations

\* C16: with breadcrumbs enabled and tracing disabled, or without a scope or an
\* active span, a call creates no span, changes no header and no propagation
\* counter, and its terminal event still records a breadcrumb while the integration
\* is registered.
C16_BreadcrumbWithoutSpan == [][C16_CallWithoutSpan /\ C16_EventWithoutSpan]_vars

C16_Witness ==
  \E r \in 1..Len(requests) :
    /\ C16_WithoutSpan(r)
    /\ tracingEnabled
    /\ requests[r].ctx = "no-scope"
    /\ requests[r].first = "response"
    /\ Len(breadcrumbs[r]) = 1
    /\ spans = <<>>

\* this step runs a terminal-event listener of request r
C17_ListenerStep(r) ==
  requests'[r].listeners /= requests[r].listeners

C17_DecidedAtEvent ==
  \A r \in 1..Len(requests) :
    C17_ListenerStep(r) =>
      /\ breadcrumbsEnabled =>
           (breadcrumbs'[r] /= breadcrumbs[r] <=> integrationActive)
      /\ ~integrationActive =>
           /\ breadcrumbs' = breadcrumbs
           /\ requests[r].span /= 0 =>
                /\ spans'[requests[r].span].finished = spans[requests[r].span].finished + 1
                /\ "error" \notin requests'[r].listeners /\ "error" \in requests[r].listeners =>
                     spans'[requests[r].span].status = "internal_error"

\* C17: whether a terminal event records a breadcrumb is decided by the registration
\* of the integration when the event is handled: without it no breadcrumb is
\* recorded even with breadcrumbs enabled, and the span still gets its status and is
\* finished.
C17_RegistrationAtEventTime == [][C17_DecidedAtEvent]_vars

C17_Witness ==
  /\ breadcrumbsEnabled
  /\ ~integrationActive
  /\ \E r \in 1..Len(requests) :
       /\ requests[r].first = "error"
       /\ breadcrumbs[r] = <<>>
       /\ requests[r].span /= 0
       /\ spans[requests[r].span].finished = 1
       /\ spans[requests[r].span].status = "internal_error"

\* step a is in the sequence
C18_Has(steps, a) == \E i \in 1..Len(steps) : steps[i] = a

\* every a of the sequence comes before every b
C18_Before(steps, a, b) ==
  \A i, j \in 1..Len(steps) : steps[i] = a /\ steps[j] = b => i < j

C18_StepsOrdered ==
  \A i \in 1..Len(call) :
    LET r  == call[i].request
        st == call[i].steps
    IN requests[r].wrapped =>
         /\ C18_Has(st, "normalizeRequestArgs")
         /\ C18_Has(st, "isSentryRequest")
         /\ C18_Has(st, "originalRequestMethod")
         /\ requests[r].span /= 0 => C18_Has(st, "startChild")
         /\ requests[r].attached => C18_Has(st, "headers")
         /\ requests[r].span /= 0 /\ transactionOf(requests[r].ctx) /= "none" =>
              C18_Has(st, "propagations")
         /\ \A a \in {"normalizeRequestArgs", "extractUrl", "isSentryRequest",
                      "startChild", "headers", "propagations"} :
              C18_Before(st, a, "originalRequestMethod")
         /\ Intercepted(r) =>
              /\ C18_Has(st, "once")
              /\ C18_Before(st, "originalRequestMethod", "once")
              /\ C18_Before(st, "once", "return")
              /\ requests[r].first = "none" => requests[r].listeners = {"response", "error"}
         /\ st[Len(st)] = "return"
         /\ call[i].returned = r

\* when the wrapper returns, no listener of the new request has run
C18_NoHandlerBeforeReturn ==
  Len(requests') = Len(requests) + 1 =>
    LET r == Len(requests')
    IN /\ breadcrumbs'[r] = <<>>
       /\ requests'[r].first = "none"
       /\ requests'[r].span /= 0 =>
            /\ spans'[requests'[r].span].finished = 0
            /\ spans'[requests'[r].span].status = "unset"

C19_FinishedIffEvent ==
  \A i \in 1..Len(spans) :
    requests[spans[i].request].first = "none" <=> spans[i].finished = 0

\* finish is called on a span only by a listener of the span's own request
C19_FinishedByOwnEvent ==
  \A i \in 1..Len(spans) :
    spans'[i].finished /= spans[i].finished =>
      requests'[spans[i].request].listeners /= requests[spans[i].request].listeners

\* every span is eventually finished
C19_EventuallyFinished ==
  \A i \in 1..MaxRequests :
    (Len(spans) >= i) ~> (Len(spans) >= i /\ spans[i].finished >= 1)

\* C19: a span is unfinished in every state before the first terminal event of its
\* request and finished in every state after it, finish is called only by a listener
\* of that request, and when every request in flight receives a terminal event every
\* span is eventually finished.
C19_FinishedOnTerminalEvent ==
  /\ [](C19_FinishedIffEvent)
  /\ [][C19_FinishedByOwnEvent]_vars
  /\ C19_EventuallyFinished

C19_Witness ==
  \E i \in 1..Len(spans) :
    /\ requests[spans[i].request].first = "response"
    /\ requests[spans[i].request].listeners = {"error"}
    /\ spans[i].finished = 1

C20_OwnRequestOnly ==
  \A r \in 1..Len(requests) :
    requests'[r].listeners /= requests[r].listeners =>
      /\ \A q \in 1..Len(requests) : q /= r => breadcrumbs'[q] = breadcrumbs[q]
      /\ \A i \in 1..Len(spans) : i /= requests[r].span => spans'[i] = spans[i]
      /\ breadcrumbs'[r] /= breadcrumbs[r] =>
           /\ Len(breadcrumbs'[r]) = Len(breadcrumbs[r]) + 1
           /\ breadcrumbs'[r][Len(breadcrumbs'[r])].url = requests[r].url
      /\ requests[r].span /= 0 =>
           /\ spans[requests[r].span].request = r
           /\ spans'[requests[r].span].description.url = requests[r].url
           /\ spans'[requests[r].span].finished = spans[requests[r].span].finished + 1

\* C20: with several requests in flight, the listener of one request changes only
\* the span created for that request and records a breadcrumb with that request's
\* URL; the span, status and breadcrumbs of every other request stay as they were.
C20_HandlersIsolated == [][C20_OwnRequestOnly]_vars

C20_Witness ==
  \E r, q \in 1..Len(requests) :
    /\ r /= q
    /\ requests[r].url /= requests[q].url
    /\ requests[r].span /= 0
    /\ requests[q].span /= 0
    /\ requests[q].first = "response"
    /\ spans[requests[q].span].finished = 1
    /\ Len(breadcrumbs[q]) = 1
    /\ requests[r].first = "none"
    /\ spans[requests[r].span].finished = 0
    /\ breadcrumbs[r] = <<>>

====
